---- MODULE Spec2Model ----
(***************************************************************************)
(* A model of the ocean-insights chat pipeline (chat/views.py,             *)
(* argo/utils.py, visualization/utils.py, chat/models.py).                 *)
(*                                                                         *)
(* Text is a sequence of one-character strings, so that Python's           *)
(* substring test, str.lower, str.strip and the two regular expressions    *)
(* of parse_query_offline are computed character by character.  A Python   *)
(* dict is a function whose domain is its key set.  A DataFrame is a       *)
(* record [cols, rows, tz]: its column names, its rows (functions from     *)
(* column name to value) and whether its time column is timezone aware.    *)
(* Time is counted in months: year * 12 + (month - 1).                     *)
(***************************************************************************)
EXTENDS Integers, Sequences, FiniteSets, TLC

VARIABLES
    HAS_ARGOPY,   \* argo/utils.py: whether argopy could be imported
    live_raises,  \* whether the argopy fetch / conversion block raises
    ocean,        \* the observations that exist (rows, canonical names)
    demo_csv,     \* demo_data/argo_sample.csv: [state, layout, tz]
    clients,      \* per client: the POSTed text and what the oracle answers
    pc,           \* per client: position of its request inside chat_view
    local,        \* per client: the local variables of chat_view
    QueryLog,     \* the chat_querylog table, a sequence of rows
    clock         \* source of created_at (auto_now_add)

vars == <<HAS_ARGOPY, live_raises, ocean, demo_csv, clients, pc, local, QueryLog, clock>>

(***************************************************************************)
(* Bounds                                                                  *)
(***************************************************************************)
\* longest table (number of sample observations that exist at once)
MaxRows == 2
\* number of phrases a composed query text is made of
MaxWords == 2

(***************************************************************************)
(* Characters and strings                                                  *)
(***************************************************************************)
UpperCase == <<"A", "B", "C", "D", "E", "F", "G", "H", "I", "J", "K", "L", "M",
               "N", "O", "P", "Q", "R", "S", "T", "U", "V", "W", "X", "Y", "Z">>
LowerCase == <<"a", "b", "c", "d", "e", "f", "g", "h", "i", "j", "k", "l", "m",
               "n", "o", "p", "q", "r", "s", "t", "u", "v", "w", "x", "y", "z">>
Digits == <<"0", "1", "2", "3", "4", "5", "6", "7", "8", "9">>

\* str.lower on one character
LowerChar(c) ==
    IF \E i \in DOMAIN UpperCase : UpperCase[i] = c
    THEN LowerCase[CHOOSE i \in DOMAIN UpperCase : UpperCase[i] = c]
    ELSE c

\* q.lower()
lower(q) == [i \in 1..Len(q) |-> LowerChar(q[i])]

\* the characters str.strip removes and \s matches (those a form field carries)
Whitespace == {" ", "\t"}
DigitChars == {Digits[d] : d \in DOMAIN Digits}
\* the character class [-to]
DashTO == {"-", "t", "o"}

IsSpace(c) == c \in Whitespace

RECURSIVE lstrip(_)
lstrip(q) == IF q # <<>> /\ IsSpace(Head(q)) THEN lstrip(Tail(q)) ELSE q

RECURSIVE rstrip(_)
rstrip(q) ==
    IF q # <<>> /\ IsSpace(q[Len(q)]) THEN rstrip(SubSeq(q, 1, Len(q) - 1)) ELSE q

\* q.strip()
strip(q) == rstrip(lstrip(q))

\* s[i:].startswith(w), i counted from 1
HasAt(s, i, w) ==
    /\ i >= 1
    /\ i + Len(w) - 1 <= Len(s)
    /\ \A j \in 1..Len(w) : s[i + j - 1] = w[j]

\* Python's  w in s  on strings
Contains(w, s) == \E i \in 1..(Len(s) + 1) : HasAt(s, i, w)

DigitVal(c) == (CHOOSE d \in DOMAIN Digits : Digits[d] = c) - 1

\* length of the longest run of characters of class cls that starts at s[i]
RECURSIVE Run(_, _, _)
Run(s, i, cls) ==
    IF i <= Len(s) /\ s[i] \in cls THEN 1 + Run(s, i + 1, cls) ELSE 0

\* int(digits)
RECURSIVE int(_)
int(ds) ==
    IF ds = <<>> THEN 0
    ELSE 10 * int(SubSeq(ds, 1, Len(ds) - 1)) + DigitVal(ds[Len(ds)])

K_salin == <<"s", "a", "l", "i", "n">>
K_current == <<"c", "u", "r", "r", "e", "n", "t">>
K_compare == <<"c", "o", "m", "p", "a", "r", "e">>
K_temperature == <<"t", "e", "m", "p", "e", "r", "a", "t", "u", "r", "e">>
K_salinity == <<"s", "a", "l", "i", "n", "i", "t", "y">>
K_map == <<"m", "a", "p">>
K_location == <<"l", "o", "c", "a", "t", "i", "o", "n">>
K_summary == <<"s", "u", "m", "m", "a", "r", "y">>
K_average == <<"a", "v", "e", "r", "a", "g", "e">>
K_last == <<"l", "a", "s", "t", " ">>
K_year == <<"y", "e", "a", "r">>
K_years == <<"y", "e", "a", "r", "s">>
K_month == <<"m", "o", "n", "t", "h">>
K_months == <<"m", "o", "n", "t", "h", "s">>
N_pacific == <<"p", "a", "c", "i", "f", "i", "c">>
N_indian_ocean == <<"i", "n", "d", "i", "a", "n", " ", "o", "c", "e", "a", "n">>
N_near_india == <<"n", "e", "a", "r", " ", "i", "n", "d", "i", "a">>
N_arabian_sea == <<"a", "r", "a", "b", "i", "a", "n", " ", "s", "e", "a">>

(***************************************************************************)
(* chat/views.py: the Region Registry                                      *)
(***************************************************************************)
\* the dict literal, in insertion order (the order a for loop visits it)
REGION_PRESETS ==
    << [name |-> "pacific",      chars |-> N_pacific,      bbox |-> <<-180, 180, -60, 60>>],
       [name |-> "indian ocean", chars |-> N_indian_ocean, bbox |-> <<20, 120, -40, 30>>],
       [name |-> "near india",   chars |-> N_near_india,   bbox |-> <<68, 98, 6, 30>>],
       [name |-> "arabian sea",  chars |-> N_arabian_sea,  bbox |-> <<52, 68, 5, 24>>] >>

\* REGION_PRESETS.get(region_name, REGION_PRESETS["pacific"])
RegionBox(region_name) ==
    IF \E i \in DOMAIN REGION_PRESETS : REGION_PRESETS[i].name = region_name
    THEN REGION_PRESETS[CHOOSE i \in DOMAIN REGION_PRESETS :
                            REGION_PRESETS[i].name = region_name].bbox
    ELSE REGION_PRESETS[1].bbox

(***************************************************************************)
(* Python dicts                                                            *)
(***************************************************************************)
EmptyDict == <<>>

\* d.get(k, default)
Get(d, k, default) == IF k \in DOMAIN d THEN d[k] ELSE default

\* d[k] = v
Put(d, k, v) == (k :> v) @@ d

(***************************************************************************)
(* chat/views.py: parse_query_offline                                      *)
(***************************************************************************)
\* the alternation (year|years|month|months), tried left to right
UnitAlternatives ==
    << [chars |-> K_year,   unit |-> "year"],
       [chars |-> K_years,  unit |-> "years"],
       [chars |-> K_month,  unit |-> "month"],
       [chars |-> K_months, unit |-> "months"] >>

\* whether  last (\d+) (year|years|month|months)  matches starting at s[i]
RelativeMatchAt(s, i) ==
    LET n == Run(s, i + Len(K_last), DigitChars)
        u == i + Len(K_last) + n + 1
    IN /\ HasAt(s, i, K_last)
       /\ n >= 1
       /\ HasAt(s, i + Len(K_last) + n, <<" ">>)
       /\ \E a \in DOMAIN UnitAlternatives : HasAt(s, u, UnitAlternatives[a].chars)

\* re.search(r"last (\d+) (year|years|month|months)", s): the leftmost match,
\* group(1) as an integer, group(2) the first alternative that matches
SearchRelative(s) ==
    IF \E i \in 1..Len(s) : RelativeMatchAt(s, i)
    THEN LET i == CHOOSE k \in 1..Len(s) :
                      /\ RelativeMatchAt(s, k)
                      /\ \A l \in 1..(k - 1) : ~RelativeMatchAt(s, l)
             n == Run(s, i + Len(K_last), DigitChars)
             u == i + Len(K_last) + n + 1
             a == CHOOSE k \in DOMAIN UnitAlternatives :
                      /\ HasAt(s, u, UnitAlternatives[k].chars)
                      /\ \A l \in 1..(k - 1) : ~HasAt(s, u, UnitAlternatives[l].chars)
         IN [matched |-> TRUE,
             num |-> int(SubSeq(s, i + Len(K_last), i + Len(K_last) + n - 1)),
             unit |-> UnitAlternatives[a].unit]
    ELSE [matched |-> FALSE, num |-> 0, unit |-> ""]

\* whether  (\d{4})\s*[-to]+\s*(\d{4})  matches starting at s[i]; the three
\* classes are disjoint, so the greedy runs are the only way to match
AbsoluteMatchAt(s, i) ==
    LET s1 == Run(s, i + 4, Whitespace)
        d  == Run(s, i + 4 + s1, DashTO)
        s2 == Run(s, i + 4 + s1 + d, Whitespace)
    IN /\ Run(s, i, DigitChars) >= 4
       /\ d >= 1
       /\ Run(s, i + 4 + s1 + d + s2, DigitChars) >= 4

\* re.search(r"(\d{4})\s*[-to]+\s*(\d{4})", s)
SearchAbsolute(s) ==
    IF \E i \in 1..Len(s) : AbsoluteMatchAt(s, i)
    THEN LET i == CHOOSE k \in 1..Len(s) :
                      /\ AbsoluteMatchAt(s, k)
                      /\ \A l \in 1..(k - 1) : ~AbsoluteMatchAt(s, l)
             s1 == Run(s, i + 4, Whitespace)
             d  == Run(s, i + 4 + s1, DashTO)
             s2 == Run(s, i + 4 + s1 + d, Whitespace)
             j  == i + 4 + s1 + d + s2
         IN [matched |-> TRUE,
             first |-> int(SubSeq(s, i, i + 3)),
             second |-> int(SubSeq(s, j, j + 3))]
    ELSE [matched |-> FALSE, first |-> 0, second |-> 0]

\* variable detection with the "current" test moved before the "salin" test
DetectVariablesCurrentFirst(ql, params) ==
    LET p1 == IF Contains(K_current, ql)
              THEN [params EXCEPT !.variables = <<"current">>] ELSE params
        p2 == IF Contains(K_salin, ql)
              THEN [p1 EXCEPT !.variables = <<"salinity">>] ELSE p1
    IN IF Contains(K_compare, ql)
          \/ (Contains(K_temperature, ql) /\ Contains(K_salinity, ql))
       THEN [p2 EXCEPT !.variables = <<"temperature", "salinity">>,
                       !.query_type = "comparison"]
       ELSE p2

\* variable detection: three ifs in sequence, each overwriting the last
DetectVariables(ql, params) ==
    LET p1 == IF Contains(K_salin, ql)
              THEN [params EXCEPT !.variables = <<"salinity">>] ELSE params
        p2 == IF Contains(K_current, ql)
              THEN [p1 EXCEPT !.variables = <<"current">>] ELSE p1
    IN IF Contains(K_compare, ql)
          \/ (Contains(K_temperature, ql) /\ Contains(K_salinity, ql))
       THEN [p2 EXCEPT !.variables = <<"temperature", "salinity">>,
                       !.query_type = "comparison"]
       ELSE p2

\* for name in REGION_PRESETS: if name in ql: params["region"] = name; break
RECURSIVE DetectRegion(_, _, _)
DetectRegion(ql, params, i) ==
    IF i > Len(REGION_PRESETS) THEN params
    ELSE IF Contains(REGION_PRESETS[i].chars, ql)
         THEN [params EXCEPT !.region = REGION_PRESETS[i].name]
         ELSE DetectRegion(ql, params, i + 1)

\* the query type override
DetectQueryType(ql, params) ==
    IF Contains(K_map, ql) \/ Contains(K_location, ql)
    THEN [params EXCEPT !.query_type = "map"]
    ELSE IF Contains(K_summary, ql) \/ Contains(K_average, ql)
         THEN [params EXCEPT !.query_type = "summary"]
         ELSE params

\* the time horizon with the two patterns searched independently
DetectTimeIndependent(ql, params) ==
    LET m  == SearchRelative(ql)
        m2 == SearchAbsolute(ql)
        p1 == IF m.matched
              THEN Put(Put(params, "period_num", m.num), "period_unit", m.unit)
              ELSE params
    IN IF m2.matched
       THEN Put(Put(p1, "start_year", m2.first), "end_year", m2.second)
       ELSE p1

\* the time horizon: the absolute pattern is searched in the else branch
DetectTime(ql, params) ==
    LET m  == SearchRelative(ql)
        m2 == SearchAbsolute(ql)
    IN IF m.matched
       THEN Put(Put(params, "period_num", m.num), "period_unit", m.unit)
       ELSE IF m2.matched
            THEN Put(Put(params, "start_year", m2.first), "end_year", m2.second)
            ELSE params

parse_query_offline(q) ==
    LET ql == lower(q)
        params == [variables |-> <<"temperature">>, region |-> "pacific",
                   years |-> 5, query_type |-> "trend"]
    IN DetectTime(ql,
         DetectQueryType(ql,
           DetectRegion(ql, DetectVariables(ql, params), 1)))

(***************************************************************************)
(* Query texts                                                             *)
(***************************************************************************)
ScenarioA == <<"s", "h", "o", "w", " ", "m", "e", " ", "s", "a", "l", "i", "n", "i", "t", "y", " ", "t", "r", "e", "n", "d", " ", "n", "e", "a", "r", " ", "i", "n", "d", "i", "a", " ", "l", "a", "s", "t", " ", "2", " ", "y", "e", "a", "r", "s">>
ScenarioB == <<"c", "o", "m", "p", "a", "r", "e", " ", "t", "e", "m", "p", "e", "r", "a", "t", "u", "r", "e", " ", "a", "n", "d", " ", "s", "a", "l", "i", "n", "i", "t", "y", " ", "i", "n", " ", "a", "r", "a", "b", "i", "a", "n", " ", "s", "e", "a">>
ScenarioC == <<"a", "v", "e", "r", "a", "g", "e", " ", "t", "e", "m", "p", "e", "r", "a", "t", "u", "r", "e", " ", "i", "n", " ", "p", "a", "c", "i", "f", "i", "c">>
T_map == <<"M", "a", "p", " ", "n", "e", "a", "r", " ", "i", "n", "d", "i", "a">>
T_absolute == <<"t", "e", "m", "p", "e", "r", "a", "t", "u", "r", "e", " ", "2", "0", "1", "0", " ", "t", "o", " ", "2", "0", "2", "0">>
T_zero == <<"n", "e", "a", "r", " ", "i", "n", "d", "i", "a", " ", "l", "a", "s", "t", " ", "0", " ", "y", "e", "a", "r", "s">>
T_months == <<"s", "u", "m", "m", "a", "r", "y", " ", "n", "e", "a", "r", " ", "i", "n", "d", "i", "a", " ", "l", "a", "s", "t", " ", "3", " ", "m", "o", "n", "t", "h", "s">>
T_current == <<"c", "u", "r", "r", "e", "n", "t", " ", "n", "e", "a", "r", " ", "i", "n", "d", "i", "a">>
T_both == <<"l", "a", "s", "t", " ", "2", " ", "y", "e", "a", "r", "s", " ", "2", "0", "1", "0", " ", "t", "o", " ", "2", "0", "2", "0">>
T_blank == <<" ", " ">>

\* the phrases composed query texts are made of
Phrases ==
    { <<"C", "o", "m", "p", "a", "r", "e">>,
      <<"t", "e", "m", "p", "e", "r", "a", "t", "u", "r", "e">>,
      <<"s", "a", "l", "i", "n", "i", "t", "y">>,
      <<"s", "a", "l", "i", "n", "e">>,
      <<"c", "u", "r", "r", "e", "n", "t">>,
      <<"M", "a", "p">>,
      <<"l", "o", "c", "a", "t", "i", "o", "n">>,
      <<"s", "u", "m", "m", "a", "r", "y">>,
      <<"a", "v", "e", "r", "a", "g", "e">>,
      <<"p", "a", "c", "i", "f", "i", "c">>,
      <<"n", "e", "a", "r", " ", "i", "n", "d", "i", "a", "n", " ", "o", "c", "e", "a", "n">>,
      <<"n", "e", "a", "r", " ", "i", "n", "d", "i", "a">>,
      <<"A", "r", "a", "b", "i", "a", "n", " ", "S", "e", "a">>,
      <<"l", "a", "s", "t", " ", "2", " ", "y", "e", "a", "r", "s">>,
      <<"l", "a", "s", "t", " ", "1", "2", " ", "m", "o", "n", "t", "h", "s">>,
      <<"2", "0", "1", "0", " ", "t", "o", " ", "2", "0", "2", "0">>,
      <<"1", "9", "9", "9", "-", "2", "0", "0", "5">>,
      <<"s", "h", "o", "w">> }

RECURSIVE TextsUpTo(_)
\* the texts made of at most n phrases, joined by single spaces
TextsUpTo(n) ==
    IF n = 0 THEN {<<>>}
    ELSE LET prev == TextsUpTo(n - 1)
         IN prev \cup {IF t = <<>> THEN p ELSE t \o <<" ">> \o p : t \in prev, p \in Phrases}

ParseTexts == TextsUpTo(MaxWords) \cup {ScenarioA, ScenarioB, ScenarioC, T_both, T_zero}

PipelineTexts ==
    {ScenarioA, ScenarioB, ScenarioC, T_map, T_absolute, T_zero, T_months, T_current, T_blank}

(***************************************************************************)
(* The oracle (openai.Completion.create) as the request sees it            *)
(***************************************************************************)
\* what json.loads returns for the objects the oracle may answer with
OracleObjects ==
    { EmptyDict,
      [variables |-> <<"salinity">>, region |-> "near india", query_type |-> "summary",
       period_num |-> 2, period_unit |-> "years"],
      [variables |-> <<"temperature">>, region |-> "atlantic", query_type |-> "trend",
       period_num |-> 1, period_unit |-> "years", start_year |-> 2010, end_year |-> 2020],
      [variables |-> <<"temperature">>, query_type |-> "trend",
       start_year |-> 2010, end_year |-> 2020],
      [variables |-> <<"temperature">>, region |-> "near india", query_type |-> "comparison"],
      [variables |-> <<"temperature", "salinity">>, region |-> "near india",
       query_type |-> "forecast"],
      [variables |-> <<"temperature">>, region |-> "near india", query_type |-> "map",
       period_num |-> 0, period_unit |-> "months"],
      [region |-> "near india"],
      [variables |-> <<"temperature">>, region |-> "near india"],
      [region |-> "near india", query_type |-> "summary"],
      [variables |-> <<>>, region |-> "near india", query_type |-> "trend"] }

\* "absent": the openai module is None; "raises": the call raises; "nojson": the
\* answer holds no {...}; "badjson": json.loads raises; "object": it returns obj
OracleOutcomes ==
    {[kind |-> k, obj |-> EmptyDict] : k \in {"absent", "raises", "nojson", "badjson"}}
    \cup {[kind |-> "object", obj |-> o] : o \in OracleObjects}

\* the outcomes after which the heuristic parser runs
NoAnswer == {o \in OracleOutcomes : o.kind # "object" \/ o.obj = EmptyDict}

\* what one request brings: every text with every outcome that leaves the text
\* to the heuristic parser, and every answered object (which replaces the text)
PipelineInputs ==
    {[text |-> t, oracle |-> o] : t \in PipelineTexts, o \in NoAnswer}
    \cup {[text |-> ScenarioA, oracle |-> o] : o \in OracleOutcomes \ NoAnswer}

(***************************************************************************)
(* Observations and DataFrames                                             *)
(***************************************************************************)
\* pandas' missing value (NaN, NaT)
NaN == -9999

\* pd.Timestamp.utcnow(), in months
NowT == 2026 * 12 + 10

Observations ==
    << [float_id |-> "F1", lon |-> 68,  lat |-> 30, time |-> NowT - 1,
        temperature |-> 10,  salinity |-> 35],
       [float_id |-> "F2", lon |-> 60,  lat |-> 15, time |-> 2015 * 12 + 5,
        temperature |-> 20,  salinity |-> 34],
       [float_id |-> "F3", lon |-> 200, lat |-> 15, time |-> NowT - 1,
        temperature |-> 30,  salinity |-> 36],
       [float_id |-> "F4", lon |-> 75,  lat |-> 15, time |-> NowT - 14,
        temperature |-> NaN, salinity |-> 35],
       [float_id |-> "F5", lon |-> 75,  lat |-> 15, time |-> NaN,
        temperature |-> 13,  salinity |-> 33] >>

RECURSIVE Pick(_)
\* the observations with the indices of S, in index order
Pick(S) ==
    IF S = {} THEN <<>>
    ELSE LET i == CHOOSE k \in S : \A l \in S : k <= l
         IN <<Observations[i]>> \o Pick(S \ {i})

Oceans == {Pick(S) : S \in {T \in SUBSET DOMAIN Observations : Cardinality(T) <= MaxRows}}

CanonicalCols == {"float_id", "lon", "lat", "time", "temperature", "salinity"}

\* the header of the CSV file, by layout
LayoutCols(layout) ==
    CASE layout = "canonical" -> CanonicalCols
      [] layout = "abbrev"    -> {"float_id", "lon", "lat", "time", "temp", "sal"}
      [] layout = "longnames" ->
             {"float_id", "longitude", "latitude", "time", "temperature", "salinity"}

\* the observation field a column of the file holds
FieldOf(col) ==
    CASE col = "temp"      -> "temperature"
      [] col = "sal"       -> "salinity"
      [] col = "longitude" -> "lon"
      [] col = "latitude"  -> "lat"
      [] OTHER             -> col

\* pd.DataFrame()
EmptyFrame == [cols |-> {}, rows |-> <<>>, tz |-> TRUE]

\* df.empty
IsEmpty(df) == df.rows = <<>> \/ df.cols = {}

\* df[new] = df[old]
CopyColumn(df, new, old) ==
    [cols |-> df.cols \cup {new},
     rows |-> [i \in DOMAIN df.rows |-> Put(df.rows[i], new, df.rows[i][old])],
     tz   |-> df.tz]

\* pd.read_csv(demo, parse_dates=["time"])
read_csv ==
    IF demo_csv.state = "ok"
    THEN [raised |-> FALSE,
          df |-> [cols |-> LayoutCols(demo_csv.layout),
                  rows |-> [i \in DOMAIN ocean |->
                               [c \in LayoutCols(demo_csv.layout) |-> ocean[i][FieldOf(c)]]],
                  tz   |-> demo_csv.tz]]
    ELSE [raised |-> TRUE, df |-> EmptyFrame]

\* the table the argopy block builds before it filters (columns renamed, kept)
LiveFrame ==
    [cols |-> CanonicalCols,
     rows |-> [i \in DOMAIN ocean |-> [c \in CanonicalCols |-> ocean[i][c]]],
     tz   |-> TRUE]

(***************************************************************************)
(* argo/utils.py                                                           *)
(***************************************************************************)
\* the row mask of the bbox filter: a comparison with NaN is False
InBox(row, bbox) ==
    /\ row["lon"] # NaN /\ row["lat"] # NaN
    /\ row["lon"] >= bbox[1] /\ row["lon"] <= bbox[2]
    /\ row["lat"] >= bbox[3] /\ row["lat"] <= bbox[4]

\* now - pd.DateOffset(years=n) or now - pd.DateOffset(months=n)
WindowStart(period_num, period_unit) ==
    IF period_unit \in {"year", "years"}     \* period_unit.startswith("year")
    THEN NowT - 12 * period_num
    ELSE NowT - period_num

\* the row mask of the time filter: a comparison with NaT is False
InWindow(row, start) == row["time"] # NaN /\ row["time"] >= start

\* _filter_by_bbox_and_time: df["lon"] raises KeyError without the column; the
\* comparison of a timezone-naive column with the timezone-aware now raises
filter_by_bbox_and_time(df, bbox, period_num, period_unit) ==
    LET InB(row) == InBox(row, bbox)
        InW(row) == InWindow(row, WindowStart(period_num, period_unit))
        boxed == [df EXCEPT !.rows = SelectSeq(df.rows, InB)]
    IN IF ~({"lon", "lat"} \subseteq df.cols)
       THEN [raised |-> TRUE, df |-> EmptyFrame]
       ELSE IF period_unit # "" /\ period_num # 0 /\ "time" \in df.cols
            THEN IF ~df.tz
                 THEN [raised |-> TRUE, df |-> EmptyFrame]
                 ELSE [raised |-> FALSE,
                       df |-> [boxed EXCEPT !.rows = SelectSeq(boxed.rows, InW)]]
            ELSE [raised |-> FALSE, df |-> boxed]

\* one attempt of a data source, for the record of what was tried
Attempt(tier, by, outcome) == [tier |-> tier, by |-> by, outcome |-> outcome]

\* the argopy block of fetch_argo_data (try ... except Exception: pass)
LiveTier(bbox, period_num, period_unit) ==
    IF live_raises
    THEN [raised |-> TRUE, df |-> EmptyFrame]
    ELSE filter_by_bbox_and_time(LiveFrame, bbox, period_num, period_unit)

\* the demo CSV block of fetch_argo_data, entered when the file exists
StaticTier(bbox, period_num, period_unit) ==
    LET rd == read_csv
        d1 == IF "lon" \notin rd.df.cols /\ "longitude" \in rd.df.cols
              THEN CopyColumn(rd.df, "lon", "longitude") ELSE rd.df
        d2 == IF "lat" \notin d1.cols /\ "latitude" \in d1.cols
              THEN CopyColumn(d1, "lat", "latitude") ELSE d1
    IN IF rd.raised
       THEN [raised |-> TRUE, df |-> EmptyFrame]
       ELSE filter_by_bbox_and_time(d2, bbox, period_num, period_unit)

\* fetch_argo_data(params): [raised, df, tiers]
fetch_argo_data(params) ==
    LET bbox        == Get(params, "bbox", <<-180, 180, -90, 90>>)
        period_num  == Get(params, "period_num", Get(params, "years", 5))
        period_unit == Get(params, "period_unit", "years")
        lv == LiveTier(bbox, period_num, period_unit)
        st == StaticTier(bbox, period_num, period_unit)
        t1 == IF HAS_ARGOPY THEN <<Attempt("live", "fetch_argo_data", "raised")>>
                            ELSE <<Attempt("live", "fetch_argo_data", "unavailable")>>
    IN IF HAS_ARGOPY /\ ~lv.raised
       THEN [raised |-> FALSE, df |-> lv.df,
             tiers |-> <<Attempt("live", "fetch_argo_data", "ok")>>]
       ELSE IF demo_csv.state # "missing"        \* os.path.exists(demo)
            THEN IF st.raised
                 THEN [raised |-> TRUE, df |-> EmptyFrame,
                       tiers |-> Append(t1, Attempt("static", "fetch_argo_data", "raised"))]
                 ELSE [raised |-> FALSE, df |-> st.df,
                       tiers |-> Append(t1, Attempt("static", "fetch_argo_data", "ok"))]
            ELSE [raised |-> FALSE, df |-> EmptyFrame,
                  tiers |-> t1 \o <<Attempt("static", "fetch_argo_data", "unavailable"),
                                    Attempt("empty", "fetch_argo_data", "ok")>>]

(***************************************************************************)
(* visualization/utils.py                                                  *)
(***************************************************************************)
\* the empty string
NoFragment == [kind |-> "", detail |-> "", n |-> 0]

\* the rows dropna(subset=cs) keeps
DropNa(rows, cs) ==
    LET Full(row) == \A c \in cs : row[c] # NaN
    IN SelectSeq(rows, Full)

\* make_plot(df, variable): the chart of the rows with a time and a value
make_plot(df, variable) ==
    IF IsEmpty(df) \/ variable \notin df.cols
    THEN [kind |-> "plot", detail |-> "No timeseries data available for plotting.", n |-> 0]
    ELSE LET ts == DropNa(df.rows, {"time", variable})
         IN IF ts = <<>>
            THEN [kind |-> "plot", detail |-> "No valid data to plot.", n |-> 0]
            ELSE [kind |-> "plot", detail |-> variable, n |-> Len(ts)]

\* make_comparison_plot(df): one trace per default variable with data
make_comparison_plot(df) ==
    LET ts == DropNa(df.rows, {"time"})
        traces == {v \in {"temperature", "salinity"} :
                      v \in df.cols /\ DropNa(ts, {v}) # <<>>}
    IN IF IsEmpty(df)
       THEN [kind |-> "comparison", detail |-> "No data available for comparison plot.",
             n |-> 0]
       ELSE IF "time" \notin df.cols
            THEN [kind |-> "comparison", detail |-> "No time column found for plotting.",
                  n |-> 0]
            ELSE IF traces = {}
                 THEN [kind |-> "comparison",
                       detail |-> "Requested variables not found in dataset.", n |-> 0]
                 ELSE [kind |-> "comparison", detail |-> "chart",
                       n |-> Cardinality(traces)]

\* make_map(df): one marker per row with a position; dropna raises KeyError
\* when the table has no lat or lon column
make_map(df) ==
    IF IsEmpty(df)
    THEN [raised |-> FALSE,
          html |-> [kind |-> "map",
                    detail |-> "No float location data available for map.", n |-> 0]]
    ELSE IF ~({"lat", "lon"} \subseteq df.cols)
         THEN [raised |-> TRUE, html |-> NoFragment]
         ELSE [raised |-> FALSE,
               html |-> [kind |-> "map", detail |-> "markers",
                         n |-> Len(DropNa(df.rows, {"lat", "lon"}))]]

(***************************************************************************)
(* chat/views.py: chat_view                                                *)
(***************************************************************************)
\* Python's None, as a function result
None == [none |-> TRUE, j |-> EmptyDict]

\* parse_query_with_openai(q): None unless json.loads returned an object; the
\* prompt carries q, the answer is the oracle's
parse_query_with_openai(q, oracle) ==
    IF oracle.kind = "absent" THEN None            \* if not openai: return None
    ELSE IF oracle.kind = "raises" THEN None       \* except Exception: return None
    ELSE IF oracle.kind = "nojson" THEN None       \* m is None: falls off the end
    ELSE IF oracle.kind = "badjson" THEN None      \* json.loads raises
    ELSE [none |-> FALSE, j |-> oracle.obj]        \* return j

\* bool(x) of a function result: None and {} are falsy
Truthy(res) == ~res.none /\ DOMAIN res.j # {}

\* parse_query_with_openai(user_query) or parse_query_offline(user_query)
ParseQuery(q, oracle) ==
    IF Truthy(parse_query_with_openai(q, oracle))
    THEN parse_query_with_openai(q, oracle).j
    ELSE parse_query_offline(q)

\* the summary strings, by their parts
Text(msg, vs, mean, n) == [msg |-> msg, vars |-> vs, mean |-> mean, n |-> n]

\* response_text of a row that has none (NULL)
NullText == Text("", <<>>, <<>>, 0)

NoDataText == Text("No data found for the requested region/time.", <<>>, <<>>, 0)

RECURSIVE SumOf(_, _)
SumOf(rows, v) == IF rows = <<>> THEN 0 ELSE rows[1][v] + SumOf(Tail(rows), v)

\* f"{float(df[v].mean()):.2f}": mean() skips NaN; in hundredths, <<>> for nan
MeanText(df, v) ==
    LET vals == DropNa(df.rows, {v})
    IN IF vals = <<>> THEN <<>>
       ELSE <<(SumOf(vals, v) * 200 + Len(vals)) \div (2 * Len(vals))>>

\* f"Average {v}: {meanv:.2f} (from {len(df)} data points)."
AverageText(df, v) == Text("Average", <<v>>, MeanText(df, v), Len(df.rows))

RECURSIVE EnsureColumns(_, _)
\* for v in params.get("variables", []): add the column from its short name
EnsureColumns(df, vs) ==
    IF vs = <<>> THEN df
    ELSE LET v == Head(vs)
             d == IF v \notin df.cols
                  THEN IF v = "temperature" /\ "temp" \in df.cols
                       THEN CopyColumn(df, v, "temp")
                       ELSE IF v = "salinity" /\ "sal" \in df.cols
                            THEN CopyColumn(df, v, "sal")
                            ELSE df
                  ELSE df
         IN EnsureColumns(d, Tail(vs))

\* "Resolve region" to "Ensure variable columns exist": [params, fetched, df, tiers]
ResolveData(params0) ==
    LET region_name == Get(params0, "region", "pacific")
        params == Put(params0, "bbox", RegionBox(region_name))
        f   == fetch_argo_data(params)
        df0 == IF f.raised THEN EmptyFrame ELSE f.df     \* except Exception
        rd  == read_csv
        df1 == IF IsEmpty(df0)
               THEN (IF rd.raised THEN EmptyFrame ELSE rd.df)
               ELSE df0
        tiers == IF IsEmpty(df0)
                 THEN Append(f.tiers, Attempt("static", "chat_view",
                                              IF rd.raised THEN "raised" ELSE "ok"))
                 ELSE f.tiers
    IN [params |-> params,
        fetched |-> [raised |-> f.raised, df |-> f.df],
        df |-> EnsureColumns(df1, Get(params, "variables", <<>>)),
        tiers |-> tiers]

\* an exception leaving chat_view
Raised(error) ==
    [raised |-> TRUE, error |-> error, summary_text |-> NoDataText,
     plot_html |-> NoFragment, map_html |-> NoFragment]

Built(summary_text, plot_html, map_html) ==
    [raised |-> FALSE, error |-> "", summary_text |-> summary_text,
     plot_html |-> plot_html, map_html |-> map_html]

\* the summary and the default branches: v = params["variables"][0] raises
\* KeyError without the key and IndexError on an empty list
AverageBranch(params, df, withCharts) ==
    IF "variables" \notin DOMAIN params THEN Raised("KeyError: 'variables'")
    ELSE IF params["variables"] = <<>> THEN Raised("IndexError")
    ELSE LET v == params["variables"][1]
             summary_text == IF v \in df.cols THEN AverageText(df, v) ELSE NoDataText
         IN IF ~withCharts
            THEN Built(summary_text, NoFragment, NoFragment)
            ELSE IF make_map(df).raised
                 THEN Raised("KeyError: ['lat', 'lon']")
                 ELSE Built(summary_text, make_plot(df, v), make_map(df).html)

\* the comparison test with the length bound off by one
IsComparisonAnyVariable(params) ==
    params["query_type"] = "comparison" /\ Len(params["variables"]) > 0

\* params["query_type"] == "comparison" and len(params["variables"]) > 1
IsComparison(params) ==
    params["query_type"] = "comparison" /\ Len(params["variables"]) > 1

\* "Build response": the if / elif chain under  if not df.empty
BuildResponse(params, df) ==
    IF IsEmpty(df) THEN Built(NoDataText, NoFragment, NoFragment)
    ELSE IF "query_type" \notin DOMAIN params THEN Raised("KeyError: 'query_type'")
    ELSE IF params["query_type"] = "comparison" /\ "variables" \notin DOMAIN params
         THEN Raised("KeyError: 'variables'")
    ELSE IF IsComparison(params)
         THEN Built(Text("Comparison of", params["variables"], <<>>, 0),
                    make_comparison_plot(df), NoFragment)
    ELSE IF params["query_type"] = "map"
         THEN IF make_map(df).raised
              THEN Raised("KeyError: ['lat', 'lon']")
              ELSE Built(Text("Showing float locations on the map.", <<>>, <<>>, 0),
                         NoFragment, make_map(df).html)
    ELSE IF params["query_type"] = "summary"
         THEN AverageBranch(params, df, FALSE)
    ELSE AverageBranch(params, df, TRUE)

InitLocal ==
    [user_query |-> <<>>, qlog |-> 0, created_at |-> 0, params |-> EmptyDict,
     tiers |-> <<>>, fetched |-> [raised |-> FALSE, df |-> EmptyFrame],
     df |-> EmptyFrame, summary_text |-> NullText,
     plot_html |-> NoFragment, map_html |-> NoFragment, error |-> ""]

\* POST with an empty query: redirect("chat"), nothing is logged
PostEmpty(r) ==
    /\ pc[r] = "idle"
    /\ strip(clients[r].text) = <<>>
    /\ pc' = [pc EXCEPT ![r] = "redirected"]
    /\ UNCHANGED <<HAS_ARGOPY, live_raises, ocean, demo_csv, clients, local, QueryLog, clock>>

\* POST with a query: qlog = QueryLog.objects.create(query=user_query)
Post(r) ==
    /\ pc[r] = "idle"
    /\ strip(clients[r].text) # <<>>
    /\ QueryLog' = Append(QueryLog, [query |-> strip(clients[r].text),
                                     response_text |-> NullText,
                                     created_at |-> clock])
    /\ clock' = clock + 1
    /\ local' = [local EXCEPT ![r].user_query = strip(clients[r].text),
                              ![r].qlog = Len(QueryLog) + 1,
                              ![r].created_at = clock]
    /\ pc' = [pc EXCEPT ![r] = "parse"]
    /\ UNCHANGED <<HAS_ARGOPY, live_raises, ocean, demo_csv, clients>>

\* "Parse query"
Parse(r) ==
    /\ pc[r] = "parse"
    /\ local' = [local EXCEPT ![r].params = ParseQuery(local[r].user_query, clients[r].oracle)]
    /\ pc' = [pc EXCEPT ![r] = "resolve"]
    /\ UNCHANGED <<HAS_ARGOPY, live_raises, ocean, demo_csv, clients, QueryLog, clock>>

\* "Resolve region", "Fetch ARGO data", "Fallback demo CSV", "Ensure variable columns exist"
Resolve(r) ==
    /\ pc[r] = "resolve"
    /\ LET res == ResolveData(local[r].params)
       IN local' = [local EXCEPT ![r].params = res.params,
                                 ![r].fetched = res.fetched,
                                 ![r].tiers = res.tiers,
                                 ![r].df = res.df]
    /\ pc' = [pc EXCEPT ![r] = "build"]
    /\ UNCHANGED <<HAS_ARGOPY, live_raises, ocean, demo_csv, clients, QueryLog, clock>>

\* "Build response": an exception leaves chat_view before the log is updated
Build(r) ==
    /\ pc[r] = "build"
    /\ LET res == BuildResponse(local[r].params, local[r].df)
       IN IF res.raised
          THEN /\ pc' = [pc EXCEPT ![r] = "raised"]
               /\ local' = [local EXCEPT ![r].error = res.error]
          ELSE /\ pc' = [pc EXCEPT ![r] = "save"]
               /\ local' = [local EXCEPT ![r].summary_text = res.summary_text,
                                         ![r].plot_html = res.plot_html,
                                         ![r].map_html = res.map_html]
    /\ UNCHANGED <<HAS_ARGOPY, live_raises, ocean, demo_csv, clients, QueryLog, clock>>

\* "Update log": qlog.save() writes every field of the row; then the flags
\* read params["query_type"] (KeyError without the key) and the page renders
Save(r) ==
    /\ pc[r] = "save"
    /\ QueryLog' = [QueryLog EXCEPT ![local[r].qlog] =
                       [query |-> local[r].user_query,
                        response_text |-> local[r].summary_text,
                        created_at |-> local[r].created_at]]
    /\ pc' = [pc EXCEPT ![r] = IF "query_type" \in DOMAIN local[r].params
                               THEN "done" ELSE "raised"]
    /\ local' = [local EXCEPT ![r].error = IF "query_type" \in DOMAIN local[r].params
                                           THEN "" ELSE "KeyError: 'query_type'"]
    /\ UNCHANGED <<HAS_ARGOPY, live_raises, ocean, demo_csv, clients, clock>>

Next ==
    \E r \in DOMAIN clients :
        PostEmpty(r) \/ Post(r) \/ Parse(r) \/ Resolve(r) \/ Build(r) \/ Save(r)

(***************************************************************************)
(* Initial states                                                          *)
(***************************************************************************)
CsvFiles ==
    {[state |-> s, layout |-> "canonical", tz |-> TRUE] : s \in {"missing", "corrupt"}}
    \cup {[state |-> "ok", layout |-> l, tz |-> t] :
             l \in {"canonical", "abbrev", "longnames"}, t \in BOOLEAN}

Start ==
    /\ pc = [r \in DOMAIN clients |-> "idle"]
    /\ local = [r \in DOMAIN clients |-> InitLocal]
    /\ QueryLog = <<>>
    /\ clock = 1

\* one request, any environment
Init ==
    /\ HAS_ARGOPY \in BOOLEAN
    /\ live_raises \in BOOLEAN
    /\ HAS_ARGOPY \/ ~live_raises
    /\ ocean \in Oceans
    /\ demo_csv \in CsvFiles
    /\ clients \in [{"r1"} -> PipelineInputs]
    /\ Start

Spec == Init /\ [][Next]_vars

\* the heuristic parser alone: no oracle, no data
InitParse ==
    /\ HAS_ARGOPY = FALSE
    /\ live_raises = FALSE
    /\ ocean = <<>>
    /\ demo_csv = [state |-> "missing", layout |-> "canonical", tz |-> TRUE]
    /\ clients \in [{"r1"} -> [text : ParseTexts,
                               oracle : {[kind |-> "absent", obj |-> EmptyDict]}]]
    /\ Start

NextParse == \E r \in DOMAIN clients : PostEmpty(r) \/ Post(r) \/ Parse(r)

SpecParse == InitParse /\ [][NextParse]_vars

\* two simultaneous requests against the static file
InitLog ==
    /\ HAS_ARGOPY = FALSE
    /\ live_raises = FALSE
    /\ ocean = Pick({1, 4})
    /\ demo_csv \in {[state |-> "missing", layout |-> "canonical", tz |-> TRUE],
                     [state |-> "ok", layout |-> "canonical", tz |-> TRUE]}
    /\ clients \in [{"r1", "r2"} ->
                      [text : {ScenarioC, T_map, T_blank},
                       oracle : {[kind |-> "absent", obj |-> EmptyDict],
                                 [kind |-> "object",
                                  obj |-> [variables |-> <<"temperature">>,
                                           region |-> "near india"]]}]]
    /\ Start

SpecLog == InitLog /\ [][Next]_vars

(***************************************************************************)
(* Properties                                                              *)
(***************************************************************************)
QueryTypes == {"trend", "map", "summary", "comparison"}

\* the request has passed "Parse query"
Parsed(r) == pc[r] \in {"resolve", "build", "save", "done", "raised"}

\* the request has passed "Ensure variable columns exist"
Resolved(r) == pc[r] \in {"build", "save", "done", "raised"}

\* the request has passed "Build response" without an exception
BuiltOK(r) == Resolved(r) /\ local[r].summary_text # NullText

\* the oracle answered with an object that has the two required fields
SchemaOK(obj) ==
    /\ {"variables", "query_type"} \subseteq DOMAIN obj
    /\ obj["variables"] # <<>>
    /\ obj["query_type"] \in QueryTypes

\* C1: after the parse step the parameters have a non-empty variables list and a
\* query_type of the enumeration, no KeyError or IndexError comes from reading
\* them later, and a schema-violating oracle answer leaves the heuristic result.
C1_InterpretTotal ==
    \A r \in DOMAIN clients :
        Parsed(r) =>
            LET p == local[r].params
                offline == parse_query_offline(local[r].user_query)
            IN /\ "variables" \in DOMAIN p
               /\ p["variables"] # <<>>
               /\ "query_type" \in DOMAIN p
               /\ p["query_type"] \in QueryTypes
               /\ local[r].error = ""
               /\ (clients[r].oracle.kind = "object" /\ ~SchemaOK(clients[r].oracle.obj))
                      => /\ DOMAIN offline \subseteq DOMAIN p
                         /\ \A k \in DOMAIN offline : p[k] = offline[k]

TierRank(tier) == CASE tier = "live" -> 1 [] tier = "static" -> 2 [] tier = "empty" -> 3

\* C2: data resolution ends with a table and no exception; the sources are tried
\* in the order live, static, empty, each only after the one before it was
\* unavailable or raised; a failure of the static source leaves the empty table.
C2_FallbackChain ==
    \A r \in DOMAIN clients :
        Resolved(r) =>
            LET t == local[r].tiers
            IN /\ (pc[r] = "build" => local[r].error = "")
               /\ t # <<>>
               /\ t[1].tier = "live"
               /\ \A i \in 2..Len(t) :
                      /\ t[i - 1].outcome \in {"unavailable", "raised"}
                      /\ TierRank(t[i - 1].tier) <= TierRank(t[i].tier)
               /\ (\E i \in DOMAIN t : t[i].tier = "static" /\ t[i].outcome = "raised")
                      => IsEmpty(local[r].df)

Lon(row) == IF "lon" \in DOMAIN row THEN row["lon"] ELSE row["longitude"]
Lat(row) == IF "lat" \in DOMAIN row THEN row["lat"] ELSE row["latitude"]

\* C3: every row of the table handed to the Response Builder lies inside the
\* request's bounding box, all four bounds inclusive.
C3_RowsInsideBbox ==
    \A r \in DOMAIN clients :
        Resolved(r) =>
            \A i \in DOMAIN local[r].df.rows :
                LET row == local[r].df.rows[i]
                    b == local[r].params["bbox"]
                IN /\ b[1] <= Lon(row) /\ Lon(row) <= b[2]
                   /\ b[3] <= Lat(row) /\ Lat(row) <= b[4]

\* C4: a built response follows exactly one branch, in the priority order
\* comparison with at least two variables, map, summary, default; an empty table
\* gives the no-data message and two empty fragments whatever the query type.
C4_BranchOutputs ==
    \A r \in DOMAIN clients :
        BuiltOK(r) =>
            LET p  == local[r].params
                qt == Get(p, "query_type", "")
                vs == Get(p, "variables", <<>>)
                l  == local[r]
            IN IF local[r].df.rows = <<>>
               THEN /\ l.summary_text = NoDataText
                    /\ l.plot_html = NoFragment
                    /\ l.map_html = NoFragment
               ELSE IF qt = "comparison" /\ Len(vs) >= 2
               THEN /\ l.summary_text = Text("Comparison of", vs, <<>>, 0)
                    /\ l.plot_html.kind = "comparison"
                    /\ l.map_html = NoFragment
               ELSE IF qt = "map"
               THEN /\ l.summary_text.msg = "Showing float locations on the map."
                    /\ l.plot_html = NoFragment
                    /\ l.map_html.kind = "map"
               ELSE IF qt = "summary"
               THEN /\ l.summary_text.msg \in {"Average", NoDataText.msg}
                    /\ l.plot_html = NoFragment
                    /\ l.map_html = NoFragment
               ELSE /\ l.summary_text.msg \in {"Average", NoDataText.msg}
                    /\ l.plot_html.kind = "plot"
                    /\ l.map_html.kind = "map"

\* a comparison asked for one variable over a table with rows was answered by
\* the default branch: a single-variable plot and a map
C4_Witness ==
    \E r \in DOMAIN clients :
        /\ pc[r] = "done"
        /\ local[r].params["query_type"] = "comparison"
        /\ Len(local[r].params["variables"]) = 1
        /\ local[r].df.rows # <<>>
        /\ local[r].plot_html.kind = "plot"
        /\ local[r].map_html.kind = "map"

RECURSIVE SumOver(_, _, _)
\* the sum of column v over the rows with the indices of S
SumOver(rows, v, S) ==
    IF S = {} THEN 0
    ELSE LET i == CHOOSE k \in S : TRUE
         IN rows[i][v] + SumOver(rows, v, S \ {i})

\* C5: in the summary and default branches the text reports the mean over the
\* rows where the first variable is not null and the number of those rows; when
\* the variable is no column the text stays the no-data message.
C5_AverageCountsNonNull ==
    \A r \in DOMAIN clients :
        (/\ BuiltOK(r)
         /\ local[r].df.rows # <<>>
         /\ local[r].params["query_type"] # "map"
         /\ ~(local[r].params["query_type"] = "comparison"
              /\ Len(local[r].params["variables"]) >= 2))
        => LET df == local[r].df
               v  == local[r].params["variables"][1]
               S  == {i \in DOMAIN df.rows : df.rows[i][v] # NaN}
               n  == Cardinality(S)
           IN IF v \in df.cols
              THEN /\ local[r].summary_text.msg = "Average"
                   /\ local[r].summary_text.vars = <<v>>
                   /\ local[r].summary_text.n = n
                   /\ local[r].summary_text.mean =
                         IF n = 0 THEN <<>>
                         ELSE <<(SumOver(df.rows, v, S) * 200 + n) \div (2 * n)>>
              ELSE local[r].summary_text = NoDataText

\* the reference of C6, on the lower-cased text
RefTwoVariables(ql) ==
    Contains(K_compare, ql) \/ (Contains(K_temperature, ql) /\ Contains(K_salinity, ql))

RefVariables(ql) ==
    IF RefTwoVariables(ql) THEN <<"temperature", "salinity">>
    ELSE IF Contains(K_current, ql) THEN <<"current">>
    ELSE IF Contains(K_salin, ql) THEN <<"salinity">>
    ELSE <<"temperature">>

RefQueryType(ql) ==
    IF Contains(K_map, ql) \/ Contains(K_location, ql) THEN "map"
    ELSE IF Contains(K_summary, ql) \/ Contains(K_average, ql) THEN "summary"
    ELSE IF RefTwoVariables(ql) THEN "comparison"
    ELSE "trend"

RefRegion(ql) ==
    LET hits == {i \in DOMAIN REGION_PRESETS : Contains(REGION_PRESETS[i].chars, ql)}
    IN IF hits = {} THEN "pacific"
       ELSE REGION_PRESETS[CHOOSE i \in hits : \A j \in hits : i <= j].name

\* C6: parse_query_offline returns the variables, query type and region of the
\* reference (on the lower-cased text); scenarios A, B and C are instances.
C6_OfflineReference ==
    \A r \in DOMAIN clients :
        (pc[r] = "resolve" /\ clients[r].oracle \in NoAnswer) =>
            LET q  == local[r].user_query
                ql == lower(q)
                p  == local[r].params
            IN /\ p["variables"] = RefVariables(ql)
               /\ p["query_type"] = RefQueryType(ql)
               /\ p["region"] = RefRegion(ql)
               /\ q = ScenarioA => /\ p["variables"] = <<"salinity">>
                                   /\ p["region"] = "near india"
                                   /\ p["query_type"] = "trend"
               /\ q = ScenarioB => /\ p["variables"] = <<"temperature", "salinity">>
                                   /\ p["region"] = "arabian sea"
                                   /\ p["query_type"] = "comparison"
               /\ q = ScenarioC => /\ p["variables"] = <<"temperature">>
                                   /\ p["region"] = "pacific"
                                   /\ p["query_type"] = "summary"

\* a text naming "salinity" before "current" was parsed by the heuristic parser:
\* the later test of the code, "current", decided the variable
C6_Witness ==
    \E r \in DOMAIN clients :
        /\ pc[r] = "resolve"
        /\ clients[r].oracle \in NoAnswer
        /\ Contains(K_current, lower(local[r].user_query))
        /\ Contains(K_salin, lower(local[r].user_query))
        /\ ~Contains(K_compare, lower(local[r].user_query))
        /\ local[r].params["variables"] = <<"current">>

\* C7: the log is append-only under any interleaving of the requests: it only
\* grows, and a row, once written, is never updated in place (so a row is
\* written together with the summary text of its request).
C7_AppendOnly ==
    [][ /\ Len(QueryLog') >= Len(QueryLog)
        /\ \A i \in DOMAIN QueryLog : QueryLog'[i] = QueryLog[i] ]_vars

\* C8: when the parameters carry start_year and end_year, the table
\* fetch_argo_data returns holds only observations of those calendar years.
C8_AbsoluteWindowUsed ==
    \A r \in DOMAIN clients :
        (/\ Resolved(r)
         /\ {"start_year", "end_year"} \subseteq DOMAIN local[r].params
         /\ ~local[r].fetched.raised)
        => \A i \in DOMAIN local[r].fetched.df.rows :
               LET t == local[r].fetched.df.rows[i]["time"]
               IN /\ t # NaN
                  /\ local[r].params["start_year"] <= t \div 12
                  /\ t \div 12 <= local[r].params["end_year"]

\* fetch_argo_data returned the filtered demo CSV
StaticResult(r) ==
    \E i \in DOMAIN local[r].tiers :
        local[r].tiers[i] = Attempt("static", "fetch_argo_data", "ok")

\* C10: for every period_num >= 0 and unit, the static result of fetch_argo_data
\* holds exactly the observations inside the bbox whose time is at or after now
\* minus period_num units (5 years when no period_num was given); an
\* observation without a time is not among them.
C10_RelativeWindowExact ==
    \A r \in DOMAIN clients :
        (Resolved(r) /\ StaticResult(r)) =>
            LET p == local[r].params
                n == Get(p, "period_num", 5)
                u == IF "period_num" \in DOMAIN p THEN Get(p, "period_unit", "years")
                     ELSE "years"
                start == IF u \in {"year", "years"} THEN NowT - 12 * n ELSE NowT - n
                b == p["bbox"]
                expected == {i \in DOMAIN ocean :
                                /\ b[1] <= ocean[i].lon /\ ocean[i].lon <= b[2]
                                /\ b[3] <= ocean[i].lat /\ ocean[i].lat <= b[4]
                                /\ ocean[i].time # NaN
                                /\ ocean[i].time >= start}
                rows == local[r].fetched.df.rows
            IN /\ Len(rows) = Cardinality(expected)
               /\ {rows[i]["float_id"] : i \in DOMAIN rows}
                      = {ocean[i].float_id : i \in expected}

====
